---------------------------- MODULE Spec2Model ----------------------------
(***************************************************************************)
(* A model of the UNSW handbook scraper: the course-code loader and URL    *)
(* builder (handbook/loader.py), the record normaliser                     *)
(* (handbook/parser.py), the sequential crawl loop (handbook/crawler.py),  *)
(* the completeness report and CSV guard (handbook/writer.py) and the      *)
(* command-line driver (cli.py).                                           *)
(*                                                                         *)
(* Text is a sequence of one-character strings, so that strip(), upper()   *)
(* and str.format() are computed and not assumed.  A JSON value is a       *)
(* tagged record; a JSON object is the sequence of its <<key, value>>      *)
(* pairs in document order (a Python dict iterates in insertion order).    *)
(***************************************************************************)
EXTENDS Integers, Sequences, FiniteSets, TLC

VARIABLES
    ld_file,      \* loader: the course-list file handed to CourseList.from_json
    ld_result,    \* loader: what from_json returned or raised
    ub_input,     \* URL builder: template, level, year and the code list
    ub_result,    \* URL builder: what build_urls returned or raised
    pp_input,     \* parser: the raw payload and the configured placeholder
    pp_result,    \* parser: what parse_payload returned or raised
    rp_records,   \* reporter: the record batch
    rp_summary,   \* reporter: what build_completeness_report returned
    pc,           \* main: the statement main() is at
    env,          \* main: settings file, course-list file, credential, template, limit
    course_list,  \* main: CourseList.codes after create_crawler_components
    urls,         \* main: the URLs built from the selected codes
    position,     \* main: the crawl loop's position (1-based)
    events,       \* main: the requests and delays issued so far, in order
    outcomes,     \* main: the outcome of each request so far, in order
    harvested,    \* main: the records collected by crawl
    exit_status,  \* main: the process's exit status, or the exception that ended it
    csv_rows      \* main: the rows write_csv put in the output file

vars == <<ld_file, ld_result, ub_input, ub_result, pp_input, pp_result,
          rp_records, rp_summary, pc, env, course_list, urls, position,
          events, outcomes, harvested, exit_status, csv_rows>>

loaderVars == <<ld_file, ld_result>>
urlVars == <<ub_input, ub_result>>
parserVars == <<pp_input, pp_result>>
reportVars == <<rp_records, rp_summary>>
mainVars == <<pc, env, course_list, urls, position, events, outcomes,
              harvested, exit_status, csv_rows>>

-----------------------------------------------------------------------------
(* Bounds of the model.                                                    *)

MaxStrLen == 2      \* longest course-list entry, in characters
MaxCodes == 2       \* longest course_codes array
MaxCodeLen == 2     \* longest code handed to build_urls
MaxUrlCodes == 2    \* longest code list handed to build_urls
MaxTemplateLen == 2 \* longest URL template, in fields and literals
MaxKeys == 1        \* most keys of a generated payload object
MaxItems == 2       \* longest payload array
MaxRecords == 2     \* largest batch handed to the reporter
MaxLimit == 2       \* largest --limit

-----------------------------------------------------------------------------
(* Text.                                                                   *)

Text(alphabet, n) == UNION {[1..k -> alphabet] : k \in 0..n}

IsSpace(c) == c = " "

\* str.upper() on one character.
UpperChar(c) ==
    CASE c = "a" -> "A"
      [] c = "b" -> "B"
      [] c = "x" -> "X"
      [] OTHER -> c

\* str.upper()
Upper(s) == [i \in 1..Len(s) |-> UpperChar(s[i])]

RECURSIVE LStrip(_)
LStrip(s) == IF s # <<>> /\ IsSpace(Head(s)) THEN LStrip(Tail(s)) ELSE s

RECURSIVE RStrip(_)
RStrip(s) ==
    IF s # <<>> /\ IsSpace(s[Len(s)]) THEN RStrip(SubSeq(s, 1, Len(s) - 1)) ELSE s

\* str.strip()
Strip(s) == RStrip(LStrip(s))

\* value in list
Contains(seq, x) == \E i \in 1..Len(seq) : seq[i] = x

-----------------------------------------------------------------------------
(* JSON values, as json.loads returns them.                                *)

JNull == [t |-> "null"]
JBool(b) == [t |-> "bool", b |-> b]
JNum(n) == [t |-> "num", n |-> n]
JStr(s) == [t |-> "str", s |-> s]
JArr(a) == [t |-> "arr", a |-> a]
JObj(m) == [t |-> "obj", m |-> m]

\* dict.keys(), in insertion order
Keys(obj) == [i \in 1..Len(obj.m) |-> obj.m[i][1]]

\* dict.get(key): the value, None when the key is absent
Get(obj, key) ==
    IF \E i \in 1..Len(obj.m) : obj.m[i][1] = key
    THEN obj.m[CHOOSE i \in 1..Len(obj.m) : obj.m[i][1] = key][2]
    ELSE JNull

\* A file on disk: missing, not valid JSON, or a JSON document.
MissingFile == [kind |-> "missing"]
InvalidJsonFile == [kind |-> "invalid"]
JsonFile(doc) == [kind |-> "json", doc |-> doc]

-----------------------------------------------------------------------------
(* handbook/loader.py: CourseList.from_json                                *)

Raised(exc, msg) == [status |-> exc, msg |-> msg, codes |-> <<>>]
Loaded(codes) == [status |-> "ok", msg |-> "", codes |-> codes]
NotRun == [status |-> "pending", msg |-> "", codes |-> <<>>]

\* isinstance(raw_codes, Iterable) and not isinstance(raw_codes, (str, bytes)):
\* a list and a dict are both Iterable.
IsAcceptedIterable(v) == v.t \in {"arr", "obj"}

\* for code in raw_codes: a list yields its entries, a dict its keys
Iterate(v) ==
    IF v.t = "arr" THEN v.a
    ELSE [i \in 1..Len(v.m) |-> JStr(v.m[i][1])]

\* isinstance(code, str) and code.strip()
IsUsable(entry) == entry.t = "str" /\ Strip(entry.s) # <<>>

\* code.strip().upper()
Normalise(s) == Upper(Strip(s))

\* A mutant of Clean: the duplicate test is made on the stripped entry before
\* it is upper-cased.
RECURSIVE CleanTestsRawCase(_, _)
CleanTestsRawCase(raw, cleaned) ==
    IF raw = <<>> THEN cleaned
    ELSE LET code == Head(raw) IN
         IF ~IsUsable(code) THEN CleanTestsRawCase(Tail(raw), cleaned)
         ELSE IF Contains(cleaned, Strip(code.s))
              THEN CleanTestsRawCase(Tail(raw), cleaned)
              ELSE CleanTestsRawCase(Tail(raw), Append(cleaned, Normalise(code.s)))

\* The loop over raw_codes: skip, normalise, append when not yet in cleaned.
RECURSIVE Clean(_, _)
Clean(raw, cleaned) ==
    IF raw = <<>> THEN cleaned
    ELSE LET code == Head(raw) IN
         IF ~IsUsable(code) THEN Clean(Tail(raw), cleaned)
         ELSE LET code_upper == Normalise(code.s) IN
              IF Contains(cleaned, code_upper)
              THEN Clean(Tail(raw), cleaned)
              ELSE Clean(Tail(raw), Append(cleaned, code_upper))

FromJson(file) ==
    IF file.kind = "missing" THEN Raised("FileNotFoundError", "not found")
    ELSE IF file.kind = "invalid" THEN Raised("ValueError", "invalid json")
    ELSE LET payload == file.doc IN
         \* payload.get: only a dict has it
         IF payload.t # "obj" THEN Raised("AttributeError", "no attribute get")
         ELSE LET raw_codes == Get(payload, "course_codes") IN
              IF ~IsAcceptedIterable(raw_codes)
              THEN Raised("ValueError", "no array")
              ELSE LET cleaned == Clean(Iterate(raw_codes), <<>>) IN
                   IF cleaned = <<>>
                   THEN Raised("ValueError", "no usable codes")
                   ELSE Loaded(cleaned)

\* The course-list entries of the bounded documents.
EntryChars == {" ", "a", "A"}
Entries == {JStr(s) : s \in Text(EntryChars, MaxStrLen)} \cup {JNull, JNum(7)}
EntryLists == UNION {[1..k -> Entries] : k \in 0..MaxCodes}

\* Values of course_codes that are not arrays.
NonArrayCodes ==
    {JNull, JNum(7), JStr(<<"a">>), JStr(<<>>), JBool(TRUE),
     JObj(<<>>), JObj(<< <<(<<"a">>), JNum(1)>> >>),
     JObj(<< <<(<<"b", " ">>), JNull>>, <<(<<"a">>), JNull>> >>)}

\* Documents whose top level is not an object.
NonObjectDocs ==
    {JNull, JNum(7), JStr(<<"a">>), JBool(FALSE), JArr(<<>>),
     JArr(<<JStr(<<"a">>), JStr(<<"a", "a">>)>>)}

CourseDocs ==
    NonObjectDocs
    \cup {JObj(<<>>), JObj(<< <<"name", JArr(<<JStr(<<"a">>)>>)>> >>)}
    \cup {JObj(<< <<"course_codes", v>> >>) : v \in NonArrayCodes}
    \cup {JObj(<< <<"course_codes", JArr(l)>> >>) : l \in EntryLists}
    \cup {JObj(<< <<"name", JNull>>, <<"course_codes", JArr(l)>> >>) :
              l \in [1..1 -> Entries]}

CourseFiles == {MissingFile, InvalidJsonFile} \cup {JsonFile(d) : d \in CourseDocs}

-----------------------------------------------------------------------------
(* handbook/loader.py: CourseList.build_urls                               *)

\* str(n) for an integer
Digit(d) == <<"0", "1", "2", "3", "4", "5", "6", "7", "8", "9">>[d + 1]

RECURSIVE NatStr(_)
NatStr(n) == IF n < 10 THEN <<Digit(n)>> ELSE NatStr(n \div 10) \o <<Digit(n % 10)>>

IntStr(n) == IF n < 0 THEN <<"-">> \o NatStr(-n) ELSE NatStr(n)

\* The replacement fields a template is made of, besides literal characters.
KnownFields == {"{level}", "{year}", "{code}", "{code:.1}"}
IsField(tok) == Len(tok) > 1

\* A mutant of FieldText: the code field is filled with the level.
FieldTextLevelForCode(tok, level, year, code) ==
    CASE tok = "{level}" -> level
      [] tok = "{year}" -> IntStr(year)
      [] tok = "{code}" -> level
      [] tok = "{code:.1}" -> SubSeq(code, 1, 1)
      [] OTHER -> <<tok>>

\* What str.format puts in place of one field (or literal character) of the
\* template; "{code:.1}" is the code cut to a precision of one character.
FieldText(tok, level, year, code) ==
    CASE tok = "{level}" -> level
      [] tok = "{year}" -> IntStr(year)
      [] tok = "{code}" -> code
      [] tok = "{code:.1}" -> SubSeq(code, 1, 1)
      [] OTHER -> <<tok>>

\* template.format(level=..., year=..., code=...) raises KeyError for a field
\* that names none of the three keyword arguments.
FormatRaises(template) ==
    \E i \in 1..Len(template) : IsField(template[i]) /\ template[i] \notin KnownFields

RECURSIVE Format(_, _, _, _)
Format(template, level, year, code) ==
    IF template = <<>> THEN <<>>
    ELSE FieldText(Head(template), level, year, code)
             \o Format(Tail(template), level, year, code)

UrlsRaised(exc) == [status |-> exc, urls |-> <<>>]
UrlsBuilt(u) == [status |-> "ok", urls |-> u]
UrlsNotRun == [status |-> "pending", urls |-> <<>>]

\* The loop of build_urls: format is called once per code, so an empty code
\* list never raises.
BuildUrls(codes, template, level, year) ==
    IF codes # <<>> /\ FormatRaises(template) THEN UrlsRaised("KeyError")
    ELSE UrlsBuilt([i \in 1..Len(codes) |-> Format(template, level, year, codes[i])])

TemplateTokens == {"A", "{level}", "{year}", "{code}", "{code:.1}", "{term}"}
Templates == UNION {[1..k -> TemplateTokens] : k \in 0..MaxTemplateLen}
Levels == {<<"u", "g">>, <<"p", "g">>}
Years == {2025}

\* Code lists as from_json leaves them: trimmed, upper-cased, without
\* duplicates (and possibly cut to nothing by a limit of 0).
CodePool == Text({"A", "B"}, MaxCodeLen) \ {<<>>}
CodeLists ==
    {l \in UNION {[1..k -> CodePool] : k \in 0..MaxUrlCodes} :
        \A i, j \in 1..Len(l) : i # j => l[i] # l[j]}

UrlInputs ==
    [template : Templates, level : Levels, year : Years, codes : CodeLists]

-----------------------------------------------------------------------------
(* handbook/parser.py: CourseRecord, CourseParser                          *)

\* CourseRecord.model_fields, in declaration order
FieldOrder ==
    <<"code", "title", "uoc", "overview", "conditions_for_enrolment", "faculty",
      "study_level", "offering_terms", "field_of_education", "school">>

Fields == {FieldOrder[i] : i \in 1..Len(FieldOrder)}

RECURSIVE Join(_, _)
Join(parts, sep) ==
    IF parts = <<>> THEN <<>>
    ELSE IF Len(parts) = 1 THEN parts[1]
    ELSE parts[1] \o sep \o Join(Tail(parts), sep)

\* repr() of a value json.loads can return (strings here hold no quote or
\* escape, so repr only wraps them in single quotes).
RECURSIVE Repr(_)
Repr(v) ==
    CASE v.t = "null" -> <<"N", "o", "n", "e">>
      [] v.t = "bool" -> IF v.b THEN <<"T", "r", "u", "e">> ELSE <<"F", "a", "l", "s", "e">>
      [] v.t = "num" -> IntStr(v.n)
      [] v.t = "str" -> <<"'">> \o v.s \o <<"'">>
      [] v.t = "arr" ->
            <<"[">> \o Join([i \in 1..Len(v.a) |-> Repr(v.a[i])], <<",", " ">>) \o <<"]">>
      [] v.t = "obj" ->
            <<"{">> \o Join([i \in 1..Len(v.m) |->
                                <<"'">> \o <<v.m[i][1]>> \o <<"'", ":", " ">> \o Repr(v.m[i][2])],
                            <<",", " ">>) \o <<"}">>

\* CourseParser._coerce_to_string; a bool is an int to isinstance.
CoerceToString(value) ==
    CASE value.t = "null" -> <<>>
      [] value.t \in {"num", "bool"} -> Repr(value)
      [] value.t = "str" -> Strip(value.s)
      [] OTHER -> Repr(value)

\* CourseParser._apply_placeholder: the placeholder is whatever the settings
\* hold, a string or not.
ApplyPlaceholder(item, placeholder) ==
    [f \in Fields |->
        LET text == CoerceToString(Get(item, f)) IN
        IF text # <<>> THEN JStr(text) ELSE placeholder]

\* CourseRecord(**normalised): every field must be a str.
Validates(normalised) == \A f \in Fields : normalised[f].t = "str"

\* The validated model: field name -> text.
CourseRecord(normalised) == [f \in Fields |-> normalised[f].s]

Returned(records) == [status |-> "returned", records |-> records]
ParserRaised(exc) == [status |-> exc, records |-> <<>>]
ParserNotRun == [status |-> "pending", records |-> <<>>]

\* The loop of parse_payload over the items.
RECURSIVE ParseItems(_, _)
ParseItems(items, placeholder) ==
    IF items = <<>> THEN <<>>
    ELSE LET item == Head(items)
             rest == ParseItems(Tail(items), placeholder) IN
         IF item.t # "obj" THEN rest
         ELSE LET normalised == ApplyPlaceholder(item, placeholder) IN
              IF ~Validates(normalised) THEN rest
              ELSE <<CourseRecord(normalised)>> \o rest

\* A mutant of ParsePayload: a JSON decoding error is not caught.
ParsePayloadDecodeErrorEscapes(raw_payload, placeholder) ==
    IF raw_payload.kind = "invalid" THEN ParserRaised("JSONDecodeError")
    ELSE LET data == raw_payload.doc IN
         IF data.t = "obj" THEN Returned(ParseItems(<<data>>, placeholder))
         ELSE IF data.t = "arr" THEN Returned(ParseItems(data.a, placeholder))
         ELSE Returned(<<>>)

\* CourseParser.parse_payload
ParsePayload(raw_payload, placeholder) ==
    IF raw_payload.kind = "invalid" THEN Returned(<<>>)
    ELSE LET data == raw_payload.doc IN
         IF data.t = "obj" THEN Returned(ParseItems(<<data>>, placeholder))
         ELSE IF data.t = "arr" THEN Returned(ParseItems(data.a, placeholder))
         ELSE Returned(<<>>)

\* What the settings may hold under llm.placeholder.
Placeholders ==
    {JStr(<<"N", "S">>), JStr(<<>>), JStr(<<" ">>), JNull, JNum(0)}

\* The raw values a payload object may hold under a key.
RawValues ==
    {JNull, JNum(6), JNum(0), JBool(TRUE), JStr(<<>>), JStr(<<" ">>),
     JStr(<<"x">>), JStr(<<" ", "x", " ">>), JArr(<<>>), JObj(<<>>)}

PayloadKeys == Fields \cup {"extra"}

PayloadObjects ==
    {JObj(m) : m \in {l \in UNION {[1..k -> PayloadKeys \X RawValues] : k \in 0..MaxKeys} :
                         \A i, j \in 1..Len(l) : i # j => l[i][1] # l[j][1]}}

\* An object with every schema field present.
FullObject == JObj([i \in 1..Len(FieldOrder) |-> <<FieldOrder[i], JStr(<<"x">>)>>])

PayloadItems ==
    {JNull, JStr(<<"x">>), JArr(<<>>), JObj(<<>>),
     JObj(<< <<"code", JStr(<<" ", "A", " ">>)>> >>),
     JObj(<< <<"uoc", JNum(6)>> >>), FullObject}

Payloads ==
    {InvalidJsonFile}
    \cup {JsonFile(d) : d \in {JNull, JNum(6), JStr(<<"x">>), JBool(TRUE)}}
    \cup {JsonFile(d) : d \in PayloadObjects \cup {FullObject}}
    \cup {JsonFile(JArr(a)) : a \in UNION {[1..k -> PayloadItems] : k \in 0..MaxItems}}

ParserInputs == [payload : Payloads, placeholder : Placeholders]

-----------------------------------------------------------------------------
(* handbook/writer.py: CourseWriter                                        *)

\* A mutant of IsPresent: the value is tested without strip().
IsPresentNoStrip(value) == value # <<>>

\* isinstance(value, str) and value.strip()
IsPresent(value) == Strip(value) # <<>>

\* counters[key] after the loop over the records
RECURSIVE CountPresent(_, _)
CountPresent(records, key) ==
    IF records = <<>> THEN 0
    ELSE (IF IsPresent(Head(records)[key]) THEN 1 ELSE 0)
             + CountPresent(Tail(records), key)

\* round((present / total) * 100, 1), in tenths of a percent (ties to even)
PercentTenths(present, total) ==
    LET q == (1000 * present) \div total
        r == (1000 * present) % total IN
    IF 2 * r < total THEN q
    ELSE IF 2 * r > total THEN q + 1
    ELSE IF q % 2 = 0 THEN q ELSE q + 1

\* CourseWriter.build_completeness_report; "fields" keeps the insertion order
\* of the dict.
BuildCompletenessReport(records) ==
    LET total == Len(records) IN
    [total_courses |-> total,
     fields |->
        IF total = 0 THEN <<>>
        ELSE [i \in 1..Len(FieldOrder) |->
                LET present == CountPresent(records, FieldOrder[i]) IN
                [name |-> FieldOrder[i],
                 present |-> present,
                 missing |-> total - present,
                 percent_present |-> PercentTenths(present, total)]]]

ReportNotRun == [total_courses |-> -1, fields |-> <<>>]

\* CourseWriter.write_csv: the rows written, header first; an empty batch
\* raises before anything is created.
WriteCsv(records) ==
    IF records = <<>> THEN [status |-> "ValueError", rows |-> <<>>]
    ELSE [status |-> "ok",
          rows |-> <<FieldOrder>> \o
                   [k \in 1..Len(records) |->
                       [i \in 1..Len(FieldOrder) |-> records[k][FieldOrder[i]]]]]

\* Records as the parser can leave them: every field filled, or one field empty
\* or blank (an empty or blank placeholder), or every field blank.
FilledRecord == [f \in Fields |-> <<"x">>]
BlankTexts == {<<>>, <<" ">>}
RecordPool ==
    {FilledRecord, [f \in Fields |-> <<" ">>]}
    \cup {[FilledRecord EXCEPT ![f] = b] : f \in Fields, b \in BlankTexts}

Batches == UNION {[1..k -> RecordPool] : k \in 0..MaxRecords}

-----------------------------------------------------------------------------
(* cli.py: main, and handbook/crawler.py: HandbookCrawler.crawl            *)

DefaultYear == 2025
DefaultLevel == <<"u", "g">>

NoLimit == [given |-> FALSE, n |-> 0]
Limit(n) == [given |-> TRUE, n |-> n]

\* selected_codes[: limit]
Slice(codes, limit) ==
    IF ~limit.given THEN codes
    ELSE IF limit.n >= 0
         THEN SubSeq(codes, 1, IF limit.n < Len(codes) THEN limit.n ELSE Len(codes))
         ELSE SubSeq(codes, 1, IF Len(codes) + limit.n > 0 THEN Len(codes) + limit.n ELSE 0)

\* CourseParser.build_strategy: the credential must be in the environment.
BuildStrategyRaises(api_key) == ~api_key

Request(url) == [op |-> "request", url |-> url]
Sleep == [op |-> "sleep", url |-> <<>>]
WriteCall == [op |-> "write_csv", url |-> <<>>]

\* The run ends: a return value of main, or an exception nothing catches.
Exit(status) ==
    /\ pc' = "exit"
    /\ exit_status' = status

\* read_settings
ReadSettings ==
    /\ pc = "read_settings"
    /\ IF env.settings = "missing" THEN Exit("FileNotFoundError")
       ELSE IF env.settings = "malformed" THEN Exit("YAMLError")
       ELSE pc' = "create_components" /\ UNCHANGED exit_status
    /\ UNCHANGED <<env, course_list, urls, position, events, outcomes, harvested, csv_rows>>
    /\ UNCHANGED <<loaderVars, urlVars, parserVars, reportVars>>

\* A mutant of CreateCrawlerComponents: the crawler fetches the first course
\* page when it is constructed, before the credential is looked at.
CreateCrawlerComponentsFetchFirst ==
    /\ pc = "create_components"
    /\ LET loaded == FromJson(env.course_file) IN
       IF loaded.status # "ok"
       THEN Exit(loaded.status) /\ UNCHANGED <<course_list, events>>
       ELSE /\ events' = Append(events, Request(loaded.codes[1]))
            /\ IF BuildStrategyRaises(env.api_key)
               THEN Exit("RuntimeError") /\ UNCHANGED course_list
               ELSE /\ course_list' = loaded.codes
                    /\ pc' = "build_urls"
                    /\ UNCHANGED exit_status
    /\ UNCHANGED <<env, urls, position, outcomes, harvested, csv_rows>>
    /\ UNCHANGED <<loaderVars, urlVars, parserVars, reportVars>>

\* create_crawler_components: the course list is loaded, then the crawler is
\* constructed, and its constructor builds the extraction strategy.
CreateCrawlerComponents ==
    /\ pc = "create_components"
    /\ LET loaded == FromJson(env.course_file) IN
       IF loaded.status # "ok"
       THEN Exit(loaded.status) /\ UNCHANGED course_list
       ELSE IF BuildStrategyRaises(env.api_key)
       THEN Exit("RuntimeError") /\ UNCHANGED course_list
       ELSE /\ course_list' = loaded.codes
            /\ pc' = "build_urls"
            /\ UNCHANGED exit_status
    /\ UNCHANGED <<env, urls, position, events, outcomes, harvested, csv_rows>>
    /\ UNCHANGED <<loaderVars, urlVars, parserVars, reportVars>>

\* main: the limit is applied and the URLs are built, before orchestrate runs.
SelectAndBuildUrls ==
    /\ pc = "build_urls"
    /\ LET selected_codes == Slice(course_list, env.limit)
           built == BuildUrls(selected_codes, env.template, DefaultLevel, DefaultYear) IN
       IF built.status # "ok"
       THEN Exit(built.status) /\ UNCHANGED <<urls, position>>
       ELSE /\ urls' = built.urls
            /\ position' = 1
            /\ pc' = "crawl"
            /\ UNCHANGED exit_status
    /\ UNCHANGED <<env, course_list, events, outcomes, harvested, csv_rows>>
    /\ UNCHANGED <<loaderVars, urlVars, parserVars, reportVars>>

\* crawl: one request is issued for urls[position] and it ends as `outcome`
\* on a path that ends in `continue`.
Skipped(outcome) ==
    /\ pc = "crawl"
    /\ position <= Len(urls)
    /\ events' = Append(events, Request(urls[position]))
    /\ outcomes' = Append(outcomes, outcome)
    /\ position' = position + 1
    /\ UNCHANGED <<pc, env, course_list, urls, harvested, exit_status, csv_rows>>
    /\ UNCHANGED <<loaderVars, urlVars, parserVars, reportVars>>

\* A mutant of CrawlException: the loop is left at the first exception.
CrawlExceptionBreaks ==
    /\ pc = "crawl"
    /\ position <= Len(urls)
    /\ events' = Append(events, Request(urls[position]))
    /\ outcomes' = Append(outcomes, "exception")
    /\ pc' = "orchestrate"
    /\ UNCHANGED <<position, env, course_list, urls, harvested, exit_status, csv_rows>>
    /\ UNCHANGED <<loaderVars, urlVars, parserVars, reportVars>>

\* crawl: crawler.arun raises; the except clause logs and continues.
CrawlException == Skipped("exception")

\* crawl: result.success is false.
CrawlUnsuccessful == Skipped("unsuccessful")

\* crawl: result.extracted_content is empty.
CrawlNoContent == Skipped("no_content")

\* The extracted content arun may hand back.
CrawlPayloads ==
    {InvalidJsonFile,
     JsonFile(JObj(<< <<"code", JStr(<<"A">>)>>, <<"uoc", JNum(6)>> >>)),
     JsonFile(JArr(<<JNull, JObj(<< <<"code", JStr(<<" ", "B">>)>> >>)>>))}

\* crawl: the content is parsed, the records are kept, and the loop delays
\* before the next URL when there is one.
CrawlParse ==
    /\ pc = "crawl"
    /\ position <= Len(urls)
    /\ \E payload \in CrawlPayloads :
         LET parsed == ParsePayload(payload, env.placeholder) IN
         /\ events' = Append(events, Request(urls[position]))
         /\ IF parsed.status # "returned"
            THEN Exit(parsed.status) /\ UNCHANGED <<outcomes, harvested, position>>
            ELSE /\ harvested' = harvested \o parsed.records
                 /\ outcomes' = Append(outcomes,
                        IF parsed.records = <<>> THEN "no_records" ELSE "records")
                 /\ UNCHANGED exit_status
                 /\ IF position < Len(urls)
                    THEN pc' = "sleep" /\ UNCHANGED position
                    ELSE pc' = "crawl" /\ position' = position + 1
    /\ UNCHANGED <<env, course_list, urls, csv_rows>>
    /\ UNCHANGED <<loaderVars, urlVars, parserVars, reportVars>>

\* crawl: asyncio.sleep(delay_seconds), then the next iteration.
CrawlSleep ==
    /\ pc = "sleep"
    /\ events' = Append(events, Sleep)
    /\ position' = position + 1
    /\ pc' = "crawl"
    /\ UNCHANGED <<env, course_list, urls, outcomes, harvested, exit_status, csv_rows>>
    /\ UNCHANGED <<loaderVars, urlVars, parserVars, reportVars>>

\* crawl: the loop is exhausted and harvested is returned to orchestrate.
CrawlReturn ==
    /\ pc = "crawl"
    /\ position > Len(urls)
    /\ pc' = "orchestrate"
    /\ UNCHANGED <<env, course_list, urls, position, events, outcomes, harvested,
                   exit_status, csv_rows>>
    /\ UNCHANGED <<loaderVars, urlVars, parserVars, reportVars>>

\* A mutant of Orchestrate: a run in which any URL failed returns 1.
OrchestrateStrict ==
    /\ pc = "orchestrate"
    /\ IF harvested = <<>> \/ \E i \in 1..Len(outcomes) : outcomes[i] # "records"
       THEN Exit("1") /\ UNCHANGED <<events, csv_rows>>
       ELSE /\ events' = Append(events, WriteCall)
            /\ csv_rows' = WriteCsv(harvested).rows
            /\ Exit("0")
    /\ UNCHANGED <<env, course_list, urls, position, outcomes, harvested>>
    /\ UNCHANGED <<loaderVars, urlVars, parserVars, reportVars>>

\* orchestrate, after crawl: nothing captured returns 1; otherwise the CSV is
\* written (the disk may refuse) and 0 is returned.
Orchestrate ==
    /\ pc = "orchestrate"
    /\ IF harvested = <<>>
       THEN Exit("1") /\ UNCHANGED <<events, csv_rows>>
       ELSE /\ events' = Append(events, WriteCall)
            /\ \E disk_ok \in BOOLEAN :
                 IF disk_ok
                 THEN csv_rows' = WriteCsv(harvested).rows /\ Exit("0")
                 ELSE Exit("OSError") /\ UNCHANGED csv_rows
    /\ UNCHANGED <<env, course_list, urls, position, outcomes, harvested>>
    /\ UNCHANGED <<loaderVars, urlVars, parserVars, reportVars>>

\* The files, templates and settings main is started with.
MainCourseFiles ==
    {MissingFile, InvalidJsonFile,
     JsonFile(JArr(<<JStr(<<"a">>)>>)),
     JsonFile(JObj(<< <<"course_codes", JNull>> >>)),
     JsonFile(JObj(<< <<"course_codes", JArr(<<JStr(<<" ">>), JNum(7)>>)>> >>)),
     JsonFile(JObj(<< <<"course_codes", JObj(<< <<(<<"a">>), JNum(1)>> >>)>> >>)),
     JsonFile(JObj(<< <<"course_codes", JArr(<<JStr(<<"a">>)>>)>> >>)),
     JsonFile(JObj(<< <<"course_codes",
                        JArr(<<JStr(<<"a">>), JStr(<<"A", " ">>), JStr(<<"b">>),
                               JStr(<<"a", "b">>)>>)>> >>))}

MainTemplates ==
    {<<"A", "{code}">>, <<"{level}", "{year}">>, <<"{code}", "{term}">>}

MainEnvs ==
    [settings : {"missing", "malformed", "ok"},
     course_file : MainCourseFiles,
     api_key : BOOLEAN,
     template : MainTemplates,
     limit : {NoLimit} \cup {Limit(n) : n \in -1..MaxLimit},
     placeholder : {JStr(<<"N", "S">>), JStr(<<>>)}]

-----------------------------------------------------------------------------
(* The components on their own: one call each, on every bounded input.     *)

\* CourseList.from_json(file)
LoadCourseList ==
    /\ ld_result.status = "pending"
    /\ ld_result' = FromJson(ld_file)
    /\ UNCHANGED <<ld_file, urlVars, parserVars, reportVars, mainVars>>

\* CourseList(codes).build_urls(template, level=..., year=...)
BuildUrlList ==
    /\ ub_result.status = "pending"
    /\ ub_result' = BuildUrls(ub_input.codes, ub_input.template, ub_input.level,
                              ub_input.year)
    /\ UNCHANGED <<ub_input, loaderVars, parserVars, reportVars, mainVars>>

\* CourseParser(provider, placeholder).parse_payload(raw_payload)
ParseOnePayload ==
    /\ pp_result.status = "pending"
    /\ pp_result' = ParsePayload(pp_input.payload, pp_input.placeholder)
    /\ UNCHANGED <<pp_input, loaderVars, urlVars, reportVars, mainVars>>

\* CourseWriter.build_completeness_report(records)
BuildReport ==
    /\ rp_summary.total_courses = -1
    /\ rp_summary' = BuildCompletenessReport(rp_records)
    /\ UNCHANGED <<rp_records, loaderVars, urlVars, parserVars, mainVars>>

-----------------------------------------------------------------------------
(* Specifications.                                                         *)

LoaderIdle == ld_file = MissingFile /\ ld_result = NotRun
UrlsIdle ==
    /\ ub_input = [template |-> <<>>, level |-> DefaultLevel, year |-> DefaultYear,
                   codes |-> <<>>]
    /\ ub_result = UrlsNotRun
ParserIdle ==
    /\ pp_input = [payload |-> InvalidJsonFile, placeholder |-> JNull]
    /\ pp_result = ParserNotRun
ReportIdle == rp_records = <<>> /\ rp_summary = ReportNotRun
MainStart(e) ==
    /\ env = e
    /\ course_list = <<>>
    /\ urls = <<>>
    /\ position = 0
    /\ events = <<>>
    /\ outcomes = <<>>
    /\ harvested = <<>>
    /\ exit_status = "running"
    /\ csv_rows = <<>>
MainIdle ==
    /\ pc = "idle"
    /\ MainStart([settings |-> "missing", course_file |-> MissingFile, api_key |-> FALSE,
                  template |-> <<>>, limit |-> NoLimit, placeholder |-> JNull])

\* main(), from its first statement
Init ==
    /\ pc = "read_settings"
    /\ \E e \in MainEnvs : MainStart(e)
    /\ LoaderIdle /\ UrlsIdle /\ ParserIdle /\ ReportIdle

Next ==
    \/ ReadSettings
    \/ CreateCrawlerComponents
    \/ SelectAndBuildUrls
    \/ CrawlException
    \/ CrawlUnsuccessful
    \/ CrawlNoContent
    \/ CrawlParse
    \/ CrawlSleep
    \/ CrawlReturn
    \/ Orchestrate

Spec == Init /\ [][Next]_vars

\* asyncio.run drives the one coroutine to its end: a step that can be taken
\* is taken (arun and sleep return or raise).
FairSpec == Spec /\ WF_vars(Next)

InitLoader ==
    /\ ld_file \in CourseFiles
    /\ ld_result = NotRun
    /\ UrlsIdle /\ ParserIdle /\ ReportIdle /\ MainIdle

SpecLoader == InitLoader /\ [][LoadCourseList]_vars

InitUrls ==
    /\ ub_input \in UrlInputs
    /\ ub_result = UrlsNotRun
    /\ LoaderIdle /\ ParserIdle /\ ReportIdle /\ MainIdle

SpecUrls == InitUrls /\ [][BuildUrlList]_vars

InitParser ==
    /\ pp_input \in ParserInputs
    /\ pp_result = ParserNotRun
    /\ LoaderIdle /\ UrlsIdle /\ ReportIdle /\ MainIdle

SpecParser == InitParser /\ [][ParseOnePayload]_vars

InitReport ==
    /\ rp_records \in Batches
    /\ rp_summary = ReportNotRun
    /\ LoaderIdle /\ UrlsIdle /\ ParserIdle /\ MainIdle

SpecReport == InitReport /\ [][BuildReport]_vars

-----------------------------------------------------------------------------
(* Properties.                                                             *)

IsRequest(e) == e.op = "request"
IsCrawlEvent(e) == e.op \in {"request", "sleep"}

\* The URLs handed to crawler.arun so far, in the order of the calls.
RequestedUrls ==
    LET reqs == SelectSeq(events, IsRequest) IN [i \in 1..Len(reqs) |-> reqs[i].url]

IsPrefix(a, b) == Len(a) <= Len(b) /\ a = SubSeq(b, 1, Len(a))

\* crawl has returned: orchestrate holds its result, or main has ended after it.
CrawlOver == pc = "orchestrate" \/ (pc = "exit" /\ position > Len(urls) /\ position >= 1)

WriteCalled == \E i \in 1..Len(events) : events[i].op = "write_csv"

\* C1: crawl requests every URL of the list exactly once, in list order,
\* whatever each request's outcome (exception, unsuccessful result, empty
\* content, no records, records), and the loop always reaches the end of the
\* list: when crawl returns, the requests issued are the URL list itself.
C1_EveryUrlRequestedOnceInOrder ==
    /\ [](IsPrefix(RequestedUrls, urls))
    /\ [](CrawlOver => RequestedUrls = urls /\ Len(outcomes) = Len(urls))
    /\ (pc \in {"crawl", "sleep"} ~> pc = "orchestrate")

\* C1's case: three URLs, the first raising, the second unsuccessful, the third
\* yielding records, and crawl has returned.
C1_Witness ==
    /\ pc = "orchestrate"
    /\ Len(urls) = 3
    /\ outcomes = <<"exception", "unsuccessful", "records">>
    /\ RequestedUrls = urls

\* C2: between any two consecutive requests of crawl there is exactly one
\* delay, whatever the outcome of the earlier request, and there is no delay
\* after the last request.
C2_OneDelayBetweenRequests ==
    LET ev == SelectSeq(events, IsCrawlEvent) IN
    /\ \A k \in 1..(Len(ev) - 1) :
          /\ ev[k].op = "request" => ev[k + 1].op = "sleep"
          /\ ev[k].op = "sleep" => ev[k + 1].op = "request"
    /\ ev # <<>> => ev[1].op = "request"
    /\ (CrawlOver /\ ev # <<>>) => ev[Len(ev)].op = "request"

\* C3: once every URL has been attempted, a run that captured no record ends
\* with status 1 and never calls write_csv; a run that captured at least one
\* record calls write_csv and ends with status 0 when the write succeeds,
\* also when some URLs failed.
C3_ExitStatusAfterCrawl ==
    (pc = "exit" /\ CrawlOver /\ Len(outcomes) = Len(urls)) =>
        /\ harvested = <<>> =>
              exit_status = "1" /\ ~WriteCalled /\ csv_rows = <<>>
        /\ harvested # <<>> =>
              /\ WriteCalled
              /\ \/ exit_status = "0" /\ Len(csv_rows) = Len(harvested) + 1
                 \/ exit_status = "OSError" /\ csv_rows = <<>>

\* C3's case: a run in which one URL failed and another yielded a record ends
\* with status 0 and a written CSV.
C3_Witness ==
    /\ pc = "exit"
    /\ exit_status = "0"
    /\ csv_rows # <<>>
    /\ \E i \in 1..Len(outcomes) : outcomes[i] \in {"exception", "unsuccessful", "no_content"}
    /\ \E i \in 1..Len(outcomes) : outcomes[i] = "records"

ConfigErrors ==
    {"FileNotFoundError", "YAMLError", "ValueError", "AttributeError", "RuntimeError",
     "KeyError"}

\* C4: a run that a file or configuration error ends (settings or course list
\* missing or malformed, wrong shape, no usable code, credential absent,
\* unknown template placeholder) has issued no request to crawler.arun; with
\* the settings unreadable or the credential absent no request is ever issued.
C4_ConfigErrorsBeforeNetwork ==
    /\ exit_status \in ConfigErrors => RequestedUrls = <<>> /\ pc = "exit"
    /\ (env.settings # "ok" \/ ~env.api_key) => RequestedUrls = <<>>
    /\ RequestedUrls # <<>> => FromJson(env.course_file).status = "ok"

\* C4's case: the last of the checks, the URL template, has failed, with a
\* loaded course list and a credential, and nothing was requested.
C4_Witness ==
    /\ pc = "exit"
    /\ exit_status = "KeyError"
    /\ course_list # <<>>
    /\ env.api_key
    /\ events = <<>>

\* The items of the payload that parse_payload looks at.
PayloadItemsOf(payload) ==
    IF payload.kind # "json" THEN <<>>
    ELSE IF payload.doc.t = "obj" THEN <<payload.doc>>
    ELSE IF payload.doc.t = "arr" THEN payload.doc.a
    ELSE <<>>

\* An entry that becomes a record: an object whose filled fields are all text.
IsKept(item, placeholder) ==
    item.t = "obj" /\ Validates(ApplyPlaceholder(item, placeholder))

C6_EveryFieldNonEmpty ==
    \A k \in 1..Len(pp_result.records) :
        \A f \in Fields : pp_result.records[k][f] # <<>>

HasCodesArray(file) ==
    /\ file.kind = "json"
    /\ file.doc.t = "obj"
    /\ Get(file.doc, "course_codes").t = "arr"

\* C7: from_json raises ValueError, and produces no code list, for every JSON
\* document that is not an object holding an array under course_codes.
C7_WrongShapeIsValueError ==
    (ld_result.status # "pending" /\ ld_file.kind = "json" /\ ~HasCodesArray(ld_file)) =>
        ld_result.status = "ValueError" /\ ld_result.codes = <<>>

UpperOf == (" " :> " ") @@ ("a" :> "A") @@ ("A" :> "A") @@ ("b" :> "B")

\* s without its leading and trailing blanks, in upper case.
TrimmedUpper(s) ==
    LET idx == {i \in 1..Len(s) : s[i] # " "} IN
    IF idx = {} THEN <<>>
    ELSE LET lo == CHOOSE i \in idx : \A j \in idx : i <= j
             hi == CHOOSE i \in idx : \A j \in idx : j <= i IN
         [k \in 1..(hi - lo + 1) |-> UpperOf[s[lo + k - 1]]]

\* C8: for a document holding an array under course_codes, from_json returns
\* each normalised code (trimmed, upper-cased) of a non-blank string entry
\* exactly once, in the order of first appearance, and never an empty list:
\* with no usable entry it raises ValueError.
C8_UniqueNormalisedFirstSeen ==
    (ld_result.status # "pending" /\ HasCodesArray(ld_file)) =>
        LET raw == Get(ld_file.doc, "course_codes").a
            usable == {i \in 1..Len(raw) :
                          raw[i].t = "str" /\ \E j \in 1..Len(raw[i].s) : raw[i].s[j] # " "}
            codes == ld_result.codes
            First(c) == CHOOSE i \in usable :
                            /\ TrimmedUpper(raw[i].s) = c
                            /\ \A j \in usable : TrimmedUpper(raw[j].s) = c => i <= j IN
        IF usable = {}
        THEN ld_result.status = "ValueError" /\ codes = <<>>
        ELSE /\ ld_result.status = "ok"
             /\ codes # <<>>
             /\ \A i \in usable :
                   Cardinality({j \in 1..Len(codes) : codes[j] = TrimmedUpper(raw[i].s)}) = 1
             /\ \A j \in 1..Len(codes) : \E i \in usable : codes[j] = TrimmedUpper(raw[i].s)
             /\ \A j, k \in 1..Len(codes) : j < k => First(codes[j]) < First(codes[k])

\* C8's case: two entries that differ as written and agree once normalised
\* give one code.
C8_Witness ==
    /\ ld_result.status = "ok"
    /\ HasCodesArray(ld_file)
    /\ LET raw == Get(ld_file.doc, "course_codes").a IN
       /\ Len(raw) = 2
       /\ raw[1] = JStr(<<"A">>)
       /\ raw[2] = JStr(<<" ", "a">>)
    /\ ld_result.codes = << <<"A">> >>

Distinct(seq) == \A i, j \in 1..Len(seq) : i # j => seq[i] # seq[j]

IsInfix(a, b) == \E k \in 0..(Len(b) - Len(a)) : SubSeq(b, k + 1, k + Len(a)) = a

\* C9 as stated: for every template, build_urls returns one URL per code and
\* distinct codes never give the same URL.
C9_InjectiveForAllTemplates ==
    ub_result.status = "ok" =>
        Len(ub_result.urls) = Len(ub_input.codes) /\ Distinct(ub_result.urls)

\* C9, amended: build_urls raises KeyError only for a template with an unknown
\* placeholder; when it returns, there is one URL per code, in code order, and
\* the URLs of distinct codes differ whenever the template holds the plain
\* field {code}, each URL then containing its code.
C9_InjectiveWhenTemplateHoldsCode ==
    /\ ub_result.status \in {"pending", "ok", "KeyError"}
    /\ ub_result.status = "KeyError" =>
          \E i \in 1..Len(ub_input.template) : ub_input.template[i] = "{term}"
    /\ ub_result.status = "ok" =>
          /\ Len(ub_result.urls) = Len(ub_input.codes)
          /\ (\E i \in 1..Len(ub_input.template) : ub_input.template[i] = "{code}") =>
                /\ Distinct(ub_result.urls)
                /\ \A i \in 1..Len(ub_input.codes) :
                      IsInfix(ub_input.codes[i], ub_result.urls[i])

\* C9's case: a template with the plain code field (and a cut one), two codes
\* that agree on their first character, two URLs that differ.
C9_Witness ==
    /\ ub_result.status = "ok"
    /\ ub_input.template = <<"{code:.1}", "{code}">>
    /\ ub_input.codes = << <<"A", "A">>, <<"A", "B">> >>
    /\ ub_result.urls[1] # ub_result.urls[2]

\* C10: the report's total is the number of records; for a non-empty batch it
\* holds one entry per schema field, in schema order, with present the number
\* of records whose text for the field is not blank and missing the rest; for
\* an empty batch the per-field mapping is empty.
C10_ReportCounts ==
    rp_summary.total_courses # -1 =>
        /\ rp_summary.total_courses = Len(rp_records)
        /\ rp_records = <<>> => rp_summary.fields = <<>>
        /\ rp_records # <<>> =>
              /\ Len(rp_summary.fields) = Len(FieldOrder)
              /\ \A i \in 1..Len(FieldOrder) :
                    LET entry == rp_summary.fields[i]
                        nonblank == {k \in 1..Len(rp_records) :
                                        \E j \in 1..Len(rp_records[k][FieldOrder[i]]) :
                                            rp_records[k][FieldOrder[i]][j] # " "} IN
                    /\ entry.name = FieldOrder[i]
                    /\ entry.present = Cardinality(nonblank)
                    /\ entry.missing = Len(rp_records) - entry.present
                    /\ entry.present + entry.missing = rp_summary.total_courses
                    /\ 0 <= entry.present /\ entry.present <= rp_summary.total_courses

\* C10's case: two records, one of them blank in the last field: the field is
\* present once and missing once.
C10_Witness ==
    /\ rp_summary.total_courses = 2
    /\ rp_records[1]["school"] = <<" ">>
    /\ rp_records[2]["school"] = <<"x">>
    /\ rp_summary.fields[10].present = 1
    /\ rp_summary.fields[10].missing = 1

=============================================================================
